---- MODULE Spec2Model ----
(***************************************************************************)
(* prometheus-nftables-exporter: the ruleset-to-metrics pipeline           *)
(* (load_nft_ruleset, generate_*_metrics, generate_metrics), the forking   *)
(* HTTP server with its GET handler, and run-once mode.                    *)
(*                                                                         *)
(* Text is modelled by TLA+ strings and built with \o exactly as the       *)
(* format() calls of the source build it, so that two records are equal    *)
(* iff the bytes the exporter writes are equal.                            *)
(***************************************************************************)
EXTENDS Integers, Sequences, FiniteSets, TLC

VARIABLES
    mode,      \* ctx.args.run_once as "run_once" / "server"; "pipeline" for the scrape harness
    kernel,    \* what ctx.nft.cmd("list ruleset") returns right now: [rc, output, error]
    ctx,       \* the Context object of every process: [ruleset, metrics]
    pc,        \* position of every process in its code
    out,       \* the local (rc, output, error) of the process's load_nft_ruleset call
    exc,       \* the exception in flight in the process ("" when none)
    req,       \* the request of a child: [method, target]
    resp,      \* what a child has written to its client: [status, ctype, body]
    stdout,    \* what the main process has printed
    exitcode,  \* exit status of every process (-1 while it runs)
    nscrapes   \* number of scrapes the pipeline harness has started

vars == <<mode, kernel, ctx, pc, out, exc, req, resp, stdout, exitcode, nscrapes>>

-----------------------------------------------------------------------------
(* Bounds *)

\* connections the server accepts in one behaviour
MaxRequests == 2
\* entities in a ruleset handed to the pipeline harness
MaxEnts == 3
\* scrapes the pipeline harness runs in one process
MaxScrapes == 2

Main     == 0
Children == 1..MaxRequests
Procs    == 0..MaxRequests

-----------------------------------------------------------------------------
(* Python values *)

None    == <<>>
Some(v) == <<v>>

\* class Context: every field starts as None
Context == [ruleset |-> None, metrics |-> None]

-----------------------------------------------------------------------------
(* Entities of the "nftables" array.  An entity is a JSON object; the keys  *)
(* it has are its DOMAIN.                                                   *)

Pool ==
    { [table   |-> [family |-> "ip", name |-> "filter"]],
      [table   |-> [family |-> "ip\", name=\"x", name |-> "y"]],
      [table   |-> [family |-> "ip", name |-> "x\", name=\"y"]],
      [chain   |-> [family |-> "inet", table |-> "filter", name |-> "input"]],
      [counter |-> [family |-> "inet", table |-> "t1", name |-> "c1",
                    packets |-> 42, bytes |-> 1000]],
      [counter |-> [family |-> "inet", table |-> "t1", name |-> "c2",
                    packets |-> 7]],
      [rule    |-> [family |-> "inet", table |-> "filter", chain |-> "input"]] }

GoodCounter ==
    [counter |-> [family |-> "inet", table |-> "t1", name |-> "c1",
                  packets |-> 42, bytes |-> 1000]]

\* a counter object without "bytes"
BadCounter ==
    [counter |-> [family |-> "inet", table |-> "t1", name |-> "c2", packets |-> 7]]

\* the payloads the engine can hand back: a document with an "nftables"
\* array, a JSON document without that key, or text that is not JSON
Doc(ents) == [kind |-> "doc", nftables |-> ents]
NoKey     == [kind |-> "nokey", nftables |-> <<>>]
Garbage   == [kind |-> "garbage", nftables |-> <<>>]

EngineResult(rc, output) ==
    [rc |-> rc, output |-> output,
     error |-> IF rc = 0 THEN "" ELSE "Error: Operation not permitted"]

-----------------------------------------------------------------------------
(* The pipeline *)

Raise(m, e) == [metrics |-> m, exc |-> e]
Ok(m)       == [metrics |-> m, exc |-> ""]

\* json.loads(output)["nftables"]
json_loads_nftables(output) ==
    CASE output.kind = "garbage" -> [value |-> None, exc |-> "json.decoder.JSONDecodeError"]
      [] output.kind = "nokey"   -> [value |-> None, exc |-> "KeyError: 'nftables'"]
      [] OTHER                   -> [value |-> Some(output.nftables), exc |-> ""]

\* load_nft_ruleset: a non-zero rc is logged and nothing else; the result is
\* the new ctx.ruleset (unchanged when the parse raises) and the exception
load_nft_ruleset(ruleset, res) ==
    LET parsed == json_loads_nftables(res.output)
    IN  IF parsed.exc = ""
        THEN [ruleset |-> parsed.value, exc |-> ""]
        ELSE [ruleset |-> ruleset, exc |-> parsed.exc]

\* a filter that hands the objects back last first
RECURSIVE _find_objs_reversed(_, _)
_find_objs_reversed(ruleset, type) ==
    IF ruleset = <<>> THEN <<>>
    ELSE LET o == Head(ruleset)
             rest == _find_objs_reversed(Tail(ruleset), type)
         IN  IF type \in DOMAIN o THEN rest \o <<o>> ELSE rest

\* [o for o in ctx.ruleset if type in o]
RECURSIVE _find_objs(_, _)
_find_objs(ruleset, type) ==
    IF ruleset = <<>> THEN <<>>
    ELSE LET o == Head(ruleset)
             rest == _find_objs(Tail(ruleset), type)
         IN  IF type \in DOMAIN o THEN <<o>> \o rest ELSE rest

Has(obj, keys) == keys \subseteq DOMAIN obj

table_line(t) ==
    "nft_table{family=\"" \o t.family \o "\", name=\"" \o t.name \o "\"} 1"

chain_line(c) ==
    "nft_chain{family=\"" \o c.family \o "\", table=\"" \o c.table
        \o "\", name=\"" \o c.name \o "\"} 1"

counter_line(metric, c, value) ==
    metric \o "{family=\"" \o c.family \o "\", table=\"" \o c.table
        \o "\", name=\"" \o c.name \o "\"} " \o ToString(value)

RECURSIVE table_loop(_, _)
table_loop(objs, m) ==
    IF objs = <<>> THEN Ok(m)
    ELSE LET t == Head(objs).table
         IN  IF Has(t, {"family", "name"})
             THEN table_loop(Tail(objs), Append(m, table_line(t)))
             ELSE Raise(m, "KeyError")

generate_table_metrics(ruleset, m) == table_loop(_find_objs(ruleset, "table"), m)

RECURSIVE chain_loop(_, _)
chain_loop(objs, m) ==
    IF objs = <<>> THEN Ok(m)
    ELSE LET c == Head(objs).chain
         IN  IF Has(c, {"family", "table", "name"})
             THEN chain_loop(Tail(objs), Append(m, chain_line(c)))
             ELSE Raise(m, "KeyError")

generate_chain_metrics(ruleset, m) == chain_loop(_find_objs(ruleset, "chain"), m)

\* a counter loop that forgets the bytes record
RECURSIVE counter_loop_packets_only(_, _)
counter_loop_packets_only(objs, m) ==
    IF objs = <<>> THEN Ok(m)
    ELSE LET c == Head(objs).counter
         IN  IF ~Has(c, {"family", "table", "name", "packets"})
             THEN Raise(m, "KeyError")
             ELSE counter_loop_packets_only(Tail(objs),
                      Append(m, counter_line("nft_counter_packets", c, c.packets)))

RECURSIVE counter_loop(_, _)
counter_loop(objs, m) ==
    IF objs = <<>> THEN Ok(m)
    ELSE LET c == Head(objs).counter
         IN  IF ~Has(c, {"family", "table", "name", "packets"})
             THEN Raise(m, "KeyError")
             ELSE LET m1 == Append(m, counter_line("nft_counter_packets", c, c.packets))
                  IN  IF ~Has(c, {"bytes"})
                      THEN Raise(m1, "KeyError")
                      ELSE counter_loop(Tail(objs),
                               Append(m1, counter_line("nft_counter_bytes", c, c.bytes)))

generate_counter_metrics(ruleset, m) == counter_loop(_find_objs(ruleset, "counter"), m)

\* "\n".join(lines)
RECURSIVE join(_)
join(lines) ==
    IF lines = <<>> THEN ""
    ELSE IF Len(lines) = 1 THEN Head(lines)
    ELSE Head(lines) \o "\n" \o join(Tail(lines))

-----------------------------------------------------------------------------
(* Rulesets and requests the behaviours draw from *)

RECURSIVE SeqsUpTo(_, _)
SeqsUpTo(S, n) ==
    IF n = 0 THEN {<<>>}
    ELSE LET shorter == SeqsUpTo(S, n - 1)
         IN  shorter \cup {Append(s, e) : s \in shorter, e \in S}

\* engine outputs handed to the pipeline harness
Outputs == {Garbage, NoKey} \cup {Doc(e) : e \in SeqsUpTo(Pool, MaxEnts)}

\* the engine output after one change of the ruleset
RulesetEdits(k) ==
    LET o == k.output
        grown  == IF o.kind = "doc" /\ Len(o.nftables) < MaxEnts
                  THEN {Doc(Append(o.nftables, e)) : e \in Pool} ELSE {}
        shrunk == IF o.kind = "doc" /\ o.nftables # <<>>
                  THEN {Doc(Tail(o.nftables))} ELSE {}
        broken == {Garbage, NoKey} \ {o}
    IN  {EngineResult(k.rc, n) : n \in grown \cup shrunk \cup broken}
            \cup {EngineResult(1 - k.rc, o)}

\* what the engine hands back in the server and run-once behaviours
SrvResults ==
    { EngineResult(0, Doc(<<>>)),
      EngineResult(0, Doc(<<GoodCounter>>)),
      EngineResult(0, Doc(<<BadCounter>>)),
      EngineResult(1, Garbage),
      EngineResult(1, Doc(<<GoodCounter>>)) }

Request(m, t) == [method |-> m, target |-> t]

Requests ==
    { Request("GET", "/metrics"), Request("GET", "/"), Request("GET", "/?x=1"),
      Request("GET", "/other"), Request("POST", "/metrics"), Request("HEAD", "/") }

-----------------------------------------------------------------------------
(* HTTP handler *)

CONTENT_TYPE_LATEST == "text/plain; version=0.0.4; charset=utf-8"

LandingPage ==
    "<html><head><title>prometheus nftables exporter</title></head>"
    \o "<body><h1>prometheus nftables exporter</h1>"
    \o "<p>Visit <code>/metrics</code> to use.</p></body></html>"

NoResponse == [status |-> 0, ctype |-> "", body |-> ""]

\* urllib.parse.urlparse(self.path).path for a target in origin form:
\* everything before the first "?" or "#"
RECURSIVE urlparse_path(_)
urlparse_path(target) ==
    IF target = "" THEN ""
    ELSE IF Head(target) \in {"?", "#"} THEN ""
    ELSE Head(target) \o urlparse_path(Tail(target))

\* a handler that serves every method with do_GET
HandlerMethodsAny == {"GET", "POST", "HEAD"}

\* the methods PrometheusNftablesExporterHttpHandler defines a do_<METHOD> for
HandlerMethods == {"GET"}

\* BaseHTTPRequestHandler.send_error for a method without a do_<METHOD>:
\* 501 and an explanation, which a HEAD request does not get
send_error_501(method) ==
    [status |-> 501, ctype |-> "text/html;charset=utf-8",
     body |-> IF method = "HEAD" THEN ""
              ELSE "Unsupported method ('" \o method \o "')"]

\* traceback.format_exc(): a str
format_exc(e) ==
    [bytes |-> FALSE, text |-> "Traceback (most recent call last):\n" \o e]

\* str.encode("utf-8"): bytes
encode(text) == [bytes |-> TRUE, text |-> text]

\* self.wfile.write(data): the socket takes bytes only
wfile_write(body, data) ==
    IF data.bytes THEN [body |-> body \o data.text, exc |-> ""]
    ELSE [body |-> body, exc |-> "TypeError: a bytes-like object is required, not 'str'"]

\* a server whose handlers all run in the main process, on the one global ctx
ThreadingHTTPServer(p) == 0

\* the Context a process works on: ForkingMixIn handles every connection in
\* a forked child, which has its own copy of the module global ctx
ForkingHTTPServer(p) == p

-----------------------------------------------------------------------------
(* Initial states *)

InitCommon ==
    /\ ctx = [p \in Procs |-> Context]
    /\ out = [p \in Procs |-> None]
    /\ exc = [p \in Procs |-> ""]
    /\ req = [c \in Children |-> Request("", "")]
    /\ resp = [c \in Children |-> NoResponse]
    /\ stdout = None
    /\ exitcode = [p \in Procs |-> -1]

\* the exporter as started from the command line
Init ==
    /\ mode \in {"server", "run_once"}
    /\ kernel \in SrvResults
    /\ pc = [p \in Procs |-> IF p = Main THEN "main" ELSE "unborn"]
    /\ nscrapes = 0
    /\ InitCommon

\* one process that runs generate_metrics and the join again and again
PipelineInit ==
    /\ mode = "pipeline"
    /\ kernel \in {EngineResult(0, o) : o \in Outputs}
    /\ pc = [p \in Procs |-> IF p = Main THEN "reset" ELSE "unborn"]
    /\ nscrapes = 1
    /\ InitCommon

-----------------------------------------------------------------------------
(* Actions *)

Goto(p, label) == pc' = [pc EXCEPT ![p] = label]

\* main(): run once, or serve forever
main ==
    /\ pc[Main] = "main"
    /\ Goto(Main, IF mode = "run_once" THEN "reset" ELSE "serve_forever")
    /\ UNCHANGED <<mode, kernel, ctx, out, exc, req, resp, stdout, exitcode, nscrapes>>

\* the ruleset changes under the exporter.  The exporter looks at the
\* ruleset in load_nft_ruleset only, so a change is observable only by a
\* process that is about to load; changes at other moments are left out.
ChangeRuleset ==
    /\ \E p \in Procs : pc[p] = "load"
    /\ \E k \in SrvResults \ {kernel} : kernel' = k
    /\ UNCHANGED <<mode, ctx, pc, out, exc, req, resp, stdout, exitcode, nscrapes>>

\* serve_forever accepts a connection and forks a child for it
configure_http_server(c, r) ==
    /\ mode = "server"
    /\ pc[Main] = "serve_forever"
    /\ pc[c] = "unborn"
    /\ \A d \in Children : d < c => pc[d] # "unborn"
    /\ Goto(c, "handle")
    /\ req' = [req EXCEPT ![c] = r]
    /\ ctx' = [ctx EXCEPT ![c] = ctx[Main]]
    /\ UNCHANGED <<mode, kernel, out, exc, resp, stdout, exitcode, nscrapes>>

\* handle_one_request and the routing of do_GET
do_GET(c) ==
    /\ pc[c] = "handle"
    /\ IF req[c].method \notin HandlerMethods
       THEN /\ resp' = [resp EXCEPT ![c] = send_error_501(req[c].method)]
            /\ Goto(c, "done")
            /\ exitcode' = [exitcode EXCEPT ![c] = 0]
       ELSE LET path == urlparse_path(req[c].target)
            IN  CASE path = "/metrics" ->
                       /\ Goto(c, "reset")
                       /\ UNCHANGED <<resp, exitcode>>
                  [] path = "/" ->
                       /\ resp' = [resp EXCEPT ![c] =
                              [status |-> 200, ctype |-> "",
                               body |-> wfile_write("", encode(LandingPage)).body]]
                       /\ Goto(c, "done")
                       /\ exitcode' = [exitcode EXCEPT ![c] = 0]
                  [] OTHER ->
                       /\ resp' = [resp EXCEPT ![c] =
                              [status |-> 404, ctype |-> "", body |-> ""]]
                       /\ Goto(c, "done")
                       /\ exitcode' = [exitcode EXCEPT ![c] = 0]
    /\ UNCHANGED <<mode, kernel, ctx, out, exc, req, stdout, nscrapes>>

\* a generate_metrics that creates the list once and then keeps it
generate_metrics_keep_list(p) ==
    /\ pc[p] = "reset"
    /\ LET q == ForkingHTTPServer(p)
       IN  ctx' = [ctx EXCEPT ![q].metrics =
                      IF ctx[q].metrics = None THEN Some(<<>>) ELSE ctx[q].metrics]
    /\ Goto(p, "load")
    /\ UNCHANGED <<mode, kernel, out, exc, req, resp, stdout, exitcode, nscrapes>>

\* a handler that sends the 200 status line before it calls generate_metrics
generate_metrics_after_status(p) ==
    /\ pc[p] = "reset"
    /\ ctx' = [ctx EXCEPT ![ForkingHTTPServer(p)].metrics = Some(<<>>)]
    /\ resp' = [c \in Children |->
                   IF c = p THEN [resp[c] EXCEPT !.status = 200] ELSE resp[c]]
    /\ Goto(p, "load")
    /\ UNCHANGED <<mode, kernel, out, exc, req, stdout, exitcode, nscrapes>>

\* generate_metrics, line 90: ctx.metrics = []
generate_metrics(p) ==
    /\ pc[p] = "reset"
    /\ ctx' = [ctx EXCEPT ![ForkingHTTPServer(p)].metrics = Some(<<>>)]
    /\ Goto(p, "load")
    /\ UNCHANGED <<mode, kernel, out, exc, req, resp, stdout, exitcode, nscrapes>>

\* generate_metrics, line 91: load_nft_ruleset()
LoadRuleset(p) ==
    /\ pc[p] = "load"
    /\ out' = [out EXCEPT ![p] = Some(kernel)]
    /\ LET q == ForkingHTTPServer(p)
           r == load_nft_ruleset(ctx[q].ruleset, kernel)
       IN  /\ ctx' = [ctx EXCEPT ![q].ruleset = r.ruleset]
           /\ exc' = [exc EXCEPT ![p] = r.exc]
           /\ Goto(p, IF r.exc = "" THEN "tables" ELSE "raised")
    /\ UNCHANGED <<mode, kernel, req, resp, stdout, exitcode, nscrapes>>

\* one of the three generation calls of generate_metrics, lines 92-94
Generate(p, here, r, next) ==
    /\ pc[p] = here
    /\ ctx' = [ctx EXCEPT ![ForkingHTTPServer(p)].metrics = Some(r.metrics)]
    /\ exc' = [exc EXCEPT ![p] = r.exc]
    /\ Goto(p, IF r.exc = "" THEN next ELSE "raised")
    /\ UNCHANGED <<mode, kernel, out, req, resp, stdout, exitcode, nscrapes>>

Ruleset(p) == ctx[ForkingHTTPServer(p)].ruleset[1]
Metrics(p) == ctx[ForkingHTTPServer(p)].metrics[1]

GenTables(p) ==
    /\ pc[p] = "tables"
    /\ Generate(p, "tables", generate_table_metrics(Ruleset(p), Metrics(p)), "chains")

GenChains(p) ==
    /\ pc[p] = "chains"
    /\ Generate(p, "chains", generate_chain_metrics(Ruleset(p), Metrics(p)), "counters")

GenCounters(p) ==
    /\ pc[p] = "counters"
    /\ Generate(p, "counters", generate_counter_metrics(Ruleset(p), Metrics(p)), "generated")

\* do_GET, lines 110-113: the rest of the try block
Send200(c) ==
    /\ c \in Children
    /\ pc[c] = "generated"
    /\ resp' = [resp EXCEPT ![c] =
           [status |-> 200, ctype |-> CONTENT_TYPE_LATEST,
            body |-> wfile_write("", encode(join(Metrics(c)))).body]]
    /\ Goto(c, "done")
    /\ exitcode' = [exitcode EXCEPT ![c] = 0]
    /\ UNCHANGED <<mode, kernel, ctx, out, exc, req, stdout, nscrapes>>

\* do_GET, lines 114-117: the except block; an exception that leaves the
\* handler makes the child exit with status 1
Send500(c) ==
    /\ c \in Children
    /\ pc[c] = "raised"
    /\ LET w == wfile_write("", format_exc(exc[c]))
       IN  /\ resp' = [resp EXCEPT ![c] = [status |-> 500, ctype |-> "", body |-> w.body]]
           /\ exc' = [exc EXCEPT ![c] = w.exc]
           /\ exitcode' = [exitcode EXCEPT ![c] = IF w.exc = "" THEN 0 ELSE 1]
    /\ Goto(c, "done")
    /\ UNCHANGED <<mode, kernel, ctx, out, req, stdout, nscrapes>>

\* main, lines 209-210: print the metrics and exit(0)
RunOncePrint ==
    /\ mode = "run_once"
    /\ pc[Main] = "generated"
    /\ stdout' = Some(join(Metrics(Main)))
    /\ exitcode' = [exitcode EXCEPT ![Main] = 0]
    /\ Goto(Main, "exited")
    /\ UNCHANGED <<mode, kernel, ctx, out, exc, req, resp, nscrapes>>

\* main, line 208: generate_metrics raised and nothing catches it
RunOnceCrash ==
    /\ mode = "run_once"
    /\ pc[Main] = "raised"
    /\ exitcode' = [exitcode EXCEPT ![Main] = 1]
    /\ Goto(Main, "exited")
    /\ UNCHANGED <<mode, kernel, ctx, out, exc, req, resp, stdout, nscrapes>>

\* the pipeline harness: the newline join after generate_metrics
PipelineJoin ==
    /\ mode = "pipeline"
    /\ pc[Main] = "generated"
    /\ stdout' = Some(join(Metrics(Main)))
    /\ Goto(Main, "joined")
    /\ UNCHANGED <<mode, kernel, ctx, out, exc, req, resp, exitcode, nscrapes>>

\* the pipeline harness: the next scrape in the same process, against the
\* same engine output or a changed one
PipelineAgain(k) ==
    /\ mode = "pipeline"
    /\ pc[Main] \in {"joined", "raised"}
    /\ nscrapes < MaxScrapes
    /\ nscrapes' = nscrapes + 1
    /\ kernel' = k
    /\ exc' = [exc EXCEPT ![Main] = ""]
    /\ Goto(Main, "reset")
    /\ UNCHANGED <<mode, ctx, out, req, resp, stdout, exitcode>>

Scrape(p) ==
    \/ generate_metrics(p)
    \/ LoadRuleset(p)
    \/ GenTables(p)
    \/ GenChains(p)
    \/ GenCounters(p)

Next ==
    \/ main
    \/ ChangeRuleset
    \/ \E c \in Children, r \in Requests : configure_http_server(c, r)
    \/ \E c \in Children : do_GET(c)
    \/ \E p \in Procs : Scrape(p)
    \/ \E c \in Children : Send200(c)
    \/ \E c \in Children : Send500(c)
    \/ RunOncePrint
    \/ RunOnceCrash

Spec == Init /\ [][Next]_vars

PipelineNext ==
    \/ Scrape(Main)
    \/ PipelineJoin
    \/ \E k \in {kernel} \cup RulesetEdits(kernel) : PipelineAgain(k)

PipelineSpec == PipelineInit /\ [][PipelineNext]_vars

\* every child is a process of its own, which the operating system runs
ChildStep(c) == do_GET(c) \/ Scrape(c) \/ Send200(c) \/ Send500(c)

LiveSpec == Spec /\ \A c \in Children : WF_vars(ChildStep(c))

-----------------------------------------------------------------------------
(* What the properties speak about *)

Kinds == {"table", "chain", "counter"}

\* the fields the exporter reads of an entity
Fields(k) ==
    CASE k = "table"   -> {"family", "name"}
      [] k = "chain"   -> {"family", "table", "name"}
      [] k = "counter" -> {"family", "table", "name", "packets", "bytes"}

WellFormed(e) == \A k \in Kinds \cap DOMAIN e : Fields(k) \subseteq DOMAIN e[k]

\* an engine result the exporter can load and flatten
ScrapeOk(res) ==
    /\ res.output.kind = "doc"
    /\ \A i \in 1..Len(res.output.nftables) : WellFormed(res.output.nftables[i])

Count(R, k) == Cardinality({i \in 1..Len(R) : k \in DOMAIN R[i]})

\* the metric name of a line: the text before the first "{"
RECURSIVE MetricName(_)
MetricName(line) ==
    IF line = "" THEN ""
    ELSE IF Head(line) = "{" THEN ""
    ELSE Head(line) \o MetricName(Tail(line))

NamedLines(m, name) == {i \in 1..Len(m) : MetricName(m[i]) = name}

\* metric name and label set of a line: the text before the last blank
RECURSIVE Series(_)
Series(line) ==
    IF line = "" THEN ""
    ELSE IF SubSeq(line, Len(line), Len(line)) = " "
         THEN SubSeq(line, 1, Len(line) - 1)
         ELSE Series(SubSeq(line, 1, Len(line) - 1))

\* the records of one entity of kind k
RecordsOf(e, k) ==
    CASE k = "table"   -> <<table_line(e.table)>>
      [] k = "chain"   -> <<chain_line(e.chain)>>
      [] k = "counter" -> <<counter_line("nft_counter_packets", e.counter, e.counter.packets),
                            counter_line("nft_counter_bytes", e.counter, e.counter.bytes)>>

RECURSIVE KindLines(_, _)
KindLines(R, k) ==
    IF R = <<>> THEN <<>>
    ELSE (IF k \in DOMAIN Head(R) THEN RecordsOf(Head(R), k) ELSE <<>>)
             \o KindLines(Tail(R), k)

\* the records of a snapshot, kind by kind
Rendering(R) == KindLines(R, "table") \o KindLines(R, "chain") \o KindLines(R, "counter")

\* the records of a snapshot, entity by entity
RECURSIVE EntityOrder(_)
EntityOrder(R) ==
    IF R = <<>> THEN <<>>
    ELSE LET e == Head(R)
         IN  (IF "table" \in DOMAIN e THEN RecordsOf(e, "table") ELSE <<>>)
             \o (IF "chain" \in DOMAIN e THEN RecordsOf(e, "chain") ELSE <<>>)
             \o (IF "counter" \in DOMAIN e THEN RecordsOf(e, "counter") ELSE <<>>)
             \o EntityOrder(Tail(R))

\* the identity of an entity of kind k
Identity(e, k) ==
    IF k = "table" THEN <<e[k].family, e[k].name>>
    ELSE <<e[k].family, e[k].table, e[k].name>>

\* where the code puts the n-th record of the entity at index i, of kind k
Position(R, i, k, n) ==
    LET before == Count(SubSeq(R, 1, i - 1), k)
    IN  CASE k = "table"   -> before + 1
          [] k = "chain"   -> Count(R, "table") + before + 1
          [] k = "counter" -> Count(R, "table") + Count(R, "chain") + 2 * before + n

\* the snapshot a process has loaded, and whether its generation went through
Loaded(p)    == out[p][1].output.nftables
Completed(p) == pc[p] \in {"generated", "joined"}
IsMetrics(c) == req[c].method = "GET" /\ urlparse_path(req[c].target) = "/metrics"
Generating(c) == pc[c] \in {"reset", "load", "tables", "chains", "counters", "generated", "raised"}

-----------------------------------------------------------------------------
(* Properties *)

\* C1: whenever the engine result a scrape got has a non-zero status, the
\* load yields no snapshot, GET /metrics is answered 500 and never 200, and
\* run-once mode prints nothing and exits with a non-zero code.
C1_NonZeroStatusFailsScrape ==
    /\ \A c \in Children :
           (out[c] # None /\ out[c][1].rc # 0) =>
               /\ pc[c] \notin {"tables", "chains", "counters", "generated"}
               /\ resp[c].status # 200
               /\ (pc[c] = "done" => resp[c].status = 500)
    /\ (mode = "run_once" /\ out[Main] # None /\ out[Main][1].rc # 0) =>
           /\ pc[Main] \notin {"tables", "chains", "counters", "generated"}
           /\ stdout = None
           /\ (pc[Main] = "exited" => exitcode[Main] # 0)

\* C2: once generate_metrics has gone through a snapshot with N tables, M
\* chains and K counters, ctx.metrics holds N nft_table lines, M nft_chain
\* lines, K nft_counter_packets lines and K nft_counter_bytes lines, and
\* N + M + 2K lines in all; entities of other kinds add nothing.
C2_RecordCounts ==
    Completed(Main) =>
        LET R == Loaded(Main)
            m == ctx[Main].metrics[1]
        IN  /\ Cardinality(NamedLines(m, "nft_table")) = Count(R, "table")
            /\ Cardinality(NamedLines(m, "nft_chain")) = Count(R, "chain")
            /\ Cardinality(NamedLines(m, "nft_counter_packets")) = Count(R, "counter")
            /\ Cardinality(NamedLines(m, "nft_counter_bytes")) = Count(R, "counter")
            /\ Len(m) = Count(R, "table") + Count(R, "chain") + 2 * Count(R, "counter")

C2_Witness ==
    /\ mode = "pipeline"
    /\ Completed(Main)
    /\ Count(Loaded(Main), "table") >= 1
    /\ Count(Loaded(Main), "counter") >= 1
    /\ Count(Loaded(Main), "rule") >= 1
    /\ Len(ctx[Main].metrics[1]) = 3

\* C3: a child that has generated its metrics holds the rendering of the
\* snapshot it loaded itself, a 200 answer to GET /metrics carries exactly
\* that rendering, and a child in flight can always take its next step,
\* whatever the other children are doing.
C3_OwnSnapshot ==
    \A c \in Children :
        /\ pc[c] = "generated" =>
               /\ ScrapeOk(out[c][1])
               /\ Metrics(c) = Rendering(Loaded(c))
        /\ (IsMetrics(c) /\ resp[c].status = 200) =>
               /\ ScrapeOk(out[c][1])
               /\ resp[c].body = join(Rendering(Loaded(c)))
        /\ (pc[c] \notin {"unborn", "done"}) => ENABLED ChildStep(c)

C3_Witness ==
    /\ pc[1] = "generated"
    /\ resp[2].status = 200
    /\ IsMetrics(2)
    /\ out[1] # out[2]
    /\ Loaded(1) # Loaded(2)
    /\ Metrics(1) # <<>>
    /\ resp[2].body # join(Metrics(1))

\* C4: whatever happens to the scrapes of its children, the main process
\* keeps serving, and eventually every request it has accepted is answered
\* and stays so; a GET /metrics whose own engine result is loadable is
\* answered 200 with the rendering of that result, whatever befell the
\* other scrapes.
C4_Answered(c) ==
    /\ pc[c] = "done"
    /\ resp[c].status # 0
    /\ pc[Main] = "serve_forever"
    /\ exitcode[Main] = -1
    /\ (IsMetrics(c) /\ ScrapeOk(out[c][1])) =>
           /\ resp[c].status = 200
           /\ resp[c].body = join(Rendering(Loaded(c)))

C4_ServerSurvives ==
    <>[](\A c \in Children :
            /\ pc[c] \in {"unborn", "done"}
            /\ pc[c] = "done" => C4_Answered(c))

C4_Witness ==
    /\ pc[Main] = "serve_forever"
    /\ resp[1].status = 500
    /\ exitcode[1] = 1
    /\ IsMetrics(2)
    /\ resp[2].status = 200
    /\ resp[2].body # ""

\* C5: a 500 answer has a body that is not empty and holds the error detail.
C5_ErrorBody ==
    \A c \in Children : resp[c].status = 500 => resp[c].body # ""

\* C6: every request that is neither GET /metrics nor GET / is answered 404
\* with an empty body, whatever its method.
C6_AnythingElse404 ==
    \A c \in Children :
        (pc[c] = "done"
            /\ ~(req[c].method = "GET"
                    /\ urlparse_path(req[c].target) \in {"/metrics", "/"})) =>
            /\ resp[c].status = 404
            /\ resp[c].body = ""

\* C6 as amended: a GET whose parsed path is neither /metrics nor / is
\* answered 404 with an empty body; a request with another method is
\* answered 501, with an explanation in the body unless it is a HEAD.
C6_Get404Other501 ==
    \A c \in Children :
        pc[c] = "done" =>
            /\ (req[c].method = "GET"
                    /\ urlparse_path(req[c].target) \notin {"/metrics", "/"}) =>
                   (resp[c].status = 404 /\ resp[c].body = "")
            /\ req[c].method # "GET" =>
                   /\ resp[c].status = 501
                   /\ (resp[c].body = "" <=> req[c].method = "HEAD")

C6_Witness ==
    /\ pc[1] = "done" /\ req[1] = Request("GET", "/other") /\ resp[1].status = 404
    /\ pc[2] = "done" /\ req[2] = Request("POST", "/metrics") /\ resp[2].status = 501

\* C7: in the output of a scrape that went through, the records of two
\* entities of one kind with different identities never have the same
\* metric name and rendered label set.
C7_LabelSetsDistinct ==
    Completed(Main) =>
        LET R == Loaded(Main)
            m == ctx[Main].metrics[1]
        IN  \A k \in Kinds : \A i, j \in 1..Len(R) :
                (/\ k \in DOMAIN R[i]
                 /\ k \in DOMAIN R[j]
                 /\ Identity(R[i], k) # Identity(R[j], k)) =>
                    \A n \in 1..(IF k = "counter" THEN 2 ELSE 1) :
                        Series(m[Position(R, i, k, n)]) # Series(m[Position(R, j, k, n)])

\* C8: the records of a scrape that went through are in the order of the
\* entities in the snapshot, whatever their kinds.
C8_EntityOrder ==
    Completed(Main) => ctx[Main].metrics[1] = EntityOrder(Loaded(Main))

\* C8 as amended: the records come kind by kind, all table records, then all
\* chain records, then all counter records, and within one kind in the order
\* of the entities in the snapshot.
C8_KindThenEntityOrder ==
    Completed(Main) => ctx[Main].metrics[1] = Rendering(Loaded(Main))

C8_Witness ==
    /\ mode = "pipeline"
    /\ Completed(Main)
    /\ Count(Loaded(Main), "table") = 2
    /\ Count(Loaded(Main), "chain") = 1
    /\ "chain" \in DOMAIN Loaded(Main)[1]
    /\ Loaded(Main)[2] # Loaded(Main)[3]
    /\ ctx[Main].metrics[1] # EntityOrder(Loaded(Main))

\* C9: the text joined after any scrape of a process is the rendering of the
\* engine output of that scrape and nothing else, however many scrapes the
\* process ran before and however they ended.
C9_NoLeftovers ==
    (mode = "pipeline" /\ pc[Main] = "joined") =>
        /\ ScrapeOk(out[Main][1])
        /\ stdout = Some(join(Rendering(Loaded(Main))))

C9_Witness ==
    /\ mode = "pipeline"
    /\ pc[Main] = "joined"
    /\ nscrapes = 2
    /\ stdout # Some("")

\* C10: while a GET /metrics child is inside generate_metrics, or has left it
\* by an exception, it has written nothing to its client; a 200 answer is
\* written only by a child whose load and generation raised nothing.
C10_StatusAfterGeneration ==
    \A c \in Children :
        /\ Generating(c) => resp[c] = NoResponse
        /\ (IsMetrics(c) /\ resp[c].status = 200) =>
               (exc[c] = "" /\ out[c] # None /\ ScrapeOk(out[c][1]))

C10_Witness ==
    \E c \in Children :
        /\ pc[c] = "raised"
        /\ Metrics(c) # <<>>
        /\ resp[c] = NoResponse

====
